---- MODULE Spec2Model ----
(***************************************************************************)
(* Order intake of the food-ordering backend: the operating schedule       *)
(* (operations/models.py), the admission gate and the order life cycle     *)
(* (orders/models.py), and the two write paths of the API                  *)
(* (orders/api/serializers.py, orders/api/views.py).                       *)
(*                                                                         *)
(* Money is in cents, tax_rate in hundredths, timestamps in minutes since  *)
(* midnight of day 0; a time of day is a number of minutes in 0..1439.     *)
(* NoTime, NoReason and NoRow stand for None / SQL NULL / an absent row.   *)
(*                                                                         *)
(* Django runs in autocommit mode here: no handler of src/ opens           *)
(* transaction.atomic() or takes select_for_update(), so every ORM call is *)
(* its own database statement and requests interleave between statements. *)
(***************************************************************************)
EXTENDS Integers, Sequences, FiniteSets, TLC

\* ------------------------------------------------------------------ bounds
MaxOrders == 1
MaxLines == 2
MaxTicks == 2
MaxRequests == 3
MaxMenuEdits == 1

\* ------------------------------------------------------- program constants
DefaultMinReady == 10
DefaultMaxReady == 75
DefaultReady == 20
TaxRateHundredths == 7
CancelReasonMaxLength == 150

NoTime == 0 - 1
NoReason == "None"
NoRow == [absent |-> TRUE]
NoPk == 0
MinutesPerDay == 24 * 60
HM(h, m) == h * 60 + m

PENDING == "pending"
READY == "ready"
COMPLETE == "complete"
CANCELED == "canceled"
Status == {PENDING, READY, COMPLETE, CANCELED}

\* --------------------------------------------------------------- schedule
DefaultSetting ==
    [is_accepting_orders |-> TRUE,
     min_ready_minutes |-> DefaultMinReady,
     max_ready_minutes |-> DefaultMaxReady,
     default_ready_minutes |-> DefaultReady,
     open_time |-> HM(11, 30),
     close_time |-> HM(21, 30)]

\* close_datetime - timedelta(minutes=default_ready_minutes), then .time():
\* the date is dropped, so the result wraps around midnight.
calculate_last_call(rs) ==
    (rs.close_time - rs.default_ready_minutes) % MinutesPerDay

last_call(rs) == calculate_last_call(rs)

\* RestaurantSetting.is_accepting_orders_now at the time of day check_time.
is_accepting_orders_now(rs, check_time) ==
    IF ~rs.is_accepting_orders THEN FALSE
    ELSE rs.open_time <= check_time /\ check_time <= last_call(rs)

\* RestaurantSetting.clean: TRUE when no ValidationError is raised.
RestaurantSetting_clean(rs) ==
    /\ ~(rs.open_time >= rs.close_time)
    /\ ~(rs.min_ready_minutes > rs.max_ready_minutes)
    /\ (rs.min_ready_minutes <= rs.default_ready_minutes
        /\ rs.default_ready_minutes <= rs.max_ready_minutes)
    /\ ~(calculate_last_call(rs) < rs.open_time)

\* load that hands out the defaults whatever is stored.
load_AlwaysDefault(stored) == DefaultSetting

\* RestaurantSetting.load: get_or_create(pk=1); the row it leaves behind.
load(stored) == IF stored = NoRow THEN DefaultSetting ELSE stored

\* ---------------------------------------------------------- admission gate
TimeOfDay(t) == t % MinutesPerDay

\* The hours test of Order.clean without the >= close_time guard.
OutsideHours_NoCloseGuard(rs, creation_time) ==
    \/ creation_time < rs.open_time
    \/ creation_time > last_call(rs)

\* The second test of Order.clean: TRUE when the creation time is refused.
OutsideHours(rs, creation_time) ==
    \/ creation_time < rs.open_time
    \/ creation_time > last_call(rs)
    \/ creation_time >= rs.close_time

\* Order.clean for a row being added: TRUE when no ValidationError is raised.
Order_clean(rs, created_at) ==
    /\ rs.is_accepting_orders
    /\ ~OutsideHours(rs, TimeOfDay(created_at))

\* ----------------------------------------------------------------- pricing
\* quantize with the fraction dropped (ROUND_DOWN).
Quantize_Truncating(x, scale) == x \div scale

\* Decimal.quantize(Decimal("0.01"), rounding=ROUND_HALF_UP) of x / scale
\* hundredths: ties go away from zero.
Quantize(x, scale) ==
    IF x >= 0 THEN (2 * x + scale) \div (2 * scale)
    ELSE -((2 * (-x) + scale) \div (2 * scale))

RECURSIVE SumItemTotal(_)
SumItemTotal(rows) ==
    IF rows = {} THEN 0
    ELSE LET r == CHOOSE x \in rows : TRUE
         IN r.item_total + SumItemTotal(rows \ {r})

\* OrderItem.save: item_total from unit_price and quantity.
OrderItem_row(pk, line) ==
    [order |-> pk, item |-> line.item, quantity |-> line.quantity,
     unit_price |-> line.unit_price,
     item_total |-> Quantize(line.unit_price * line.quantity, 1)]

\* calculate_prices adding the line items to the subtotal already stored.
calculate_prices_Accumulating(self, rows) ==
    LET subtotal == Quantize(self.subtotal + SumItemTotal(rows), 1)
        tax_amount == Quantize(subtotal * self.tax_rate, 100)
        gratuity == Quantize(self.gratuity, 1)
    IN [self EXCEPT !.subtotal = subtotal,
                    !.tax_amount = tax_amount,
                    !.gratuity = gratuity,
                    !.total = Quantize(subtotal + tax_amount + gratuity, 1)]

\* Order.calculate_prices on the in-memory order, given its line-item rows.
calculate_prices(self, rows) ==
    LET subtotal == Quantize(SumItemTotal(rows), 1)
        tax_amount == Quantize(subtotal * self.tax_rate, 100)
        gratuity == Quantize(self.gratuity, 1)
    IN [self EXCEPT !.subtotal = subtotal,
                    !.tax_amount = tax_amount,
                    !.gratuity = gratuity,
                    !.total = Quantize(subtotal + tax_amount + gratuity, 1)]

\* ------------------------------------------------------------- order rows
\* Order(user=..., gratuity=g) with the field defaults, created at time t.
NewOrder(g, t) ==
    [status |-> PENDING, total |-> 0, subtotal |-> 0,
     tax_rate |-> TaxRateHundredths, tax_amount |-> 0, gratuity |-> g,
     created_at |-> t, completed_at |-> NoTime, canceled_at |-> NoTime,
     cancel_reason |-> NoReason]

\* The CheckConstraints without order_not_both_completed_and_canceled.
OrderConstraints_NoExclusion(row) ==
    /\ row.tax_rate >= 0 /\ row.tax_rate <= 100 /\ row.tax_amount >= 0
    /\ row.gratuity >= 0 /\ row.total >= 0 /\ row.subtotal >= 0
    /\ (row.completed_at = NoTime \/ row.completed_at >= row.created_at)
    /\ (row.canceled_at = NoTime \/ row.canceled_at >= row.created_at)

\* The four CheckConstraints of Order.Meta on a row.
OrderConstraints(row) ==
    /\ row.tax_rate >= 0 /\ row.tax_rate <= 100 /\ row.tax_amount >= 0
    /\ row.gratuity >= 0 /\ row.total >= 0 /\ row.subtotal >= 0
    /\ (row.completed_at = NoTime \/ row.completed_at >= row.created_at)
    /\ (row.canceled_at = NoTime \/ row.canceled_at >= row.created_at)
    /\ (row.completed_at = NoTime \/ row.canceled_at = NoTime)


\* Order.save with the INSERT ahead of the validation.
Order_save_insert_Unchecked(table, pk, row, admitted) ==
    [table EXCEPT ![pk] = row]

\* Order.save for a new row (pk is None): full_clean() runs Order.clean and
\* raises before super().save(), so the INSERT happens only when admitted.
Order_save_insert(table, pk, row, admitted) ==
    IF admitted THEN [table EXCEPT ![pk] = row] ELSE table

\* Order.save for an existing row, lines 69-88: the timestamps it stamps on
\* the in-memory instance from a diff against the stored row `old`.
Order_save_stamps(old, self, t) ==
    LET s1 == IF old.status # COMPLETE /\ self.status = COMPLETE
                 /\ self.completed_at = NoTime
              THEN [self EXCEPT !.completed_at = t, !.canceled_at = NoTime]
              ELSE self
    IN IF old.status # CANCELED /\ s1.status = CANCELED /\ s1.canceled_at = NoTime
       THEN [s1 EXCEPT !.canceled_at = t, !.completed_at = NoTime]
       ELSE LET a == IF s1.status = COMPLETE /\ s1.completed_at = NoTime
                     THEN [s1 EXCEPT !.completed_at = t] ELSE s1
            IN IF a.status = CANCELED /\ a.canceled_at = NoTime
               THEN [a EXCEPT !.canceled_at = t] ELSE a

\* Model.full_clean on an existing order: clean_fields (cancel_reason is a
\* CharField(max_length=150)); Order.clean checks nothing once the row exists.
Order_full_clean(self) ==
    self.cancel_reason = NoReason \/ Len(self.cancel_reason) <= CancelReasonMaxLength

\* A save() that writes every column of the instance.
UpdatedRow_WholeRow(stored, self, fields) == self

\* super().save(update_fields=fields): the stored row after the UPDATE, which
\* overwrites exactly the named columns with the instance's values.
UpdatedRow(stored, self, fields) ==
    [f \in DOMAIN stored |-> IF f \in fields THEN self[f] ELSE stored[f]]

\* ------------------------------------------------------------------- state
VARIABLES
    now,       \* the wall clock, minutes since midnight of day 0
    setting,   \* the RestaurantSetting row with pk=1, or NoRow
    menu,      \* MenuItem rows: item -> [price, is_available]
    orders,    \* Order rows: pk -> row, or NoRow
    nextPk,    \* the next primary key of the orders table
    items,     \* OrderItem rows
    creator,   \* the createOrder request in progress
    worker,    \* the status-change requests in progress
    nreq,      \* status-change requests started so far
    operator,  \* the schedule requests in progress
    otherSettings  \* RestaurantSetting rows stored under a pk other than 1

vars ==
    <<now, setting, menu, orders, nextPk, items, creator, worker, nreq,
      operator, otherSettings>>

StartOfRun == HM(21, 0)
TickMinutes == 10
Workers == {"w1", "w2"}
MenuItems == {1, 2}
Prices == {550, 1000}

IdleCreator ==
    [pc |-> "idle", lines |-> <<>>, gratuity |-> 0, order |-> NoPk,
     inst |-> NoRow, outcome |-> "none", errors |-> {}]

Operators == {"o1", "o2"}

IdleOperator == [pc |-> "idle", op |-> "none", inst |-> NoRow, outcome |-> "none"]

IdleWorker ==
    [pc |-> "idle", via |-> "none", pk |-> NoPk, value |-> "none",
     reason |-> NoReason, seen |-> "none", inst |-> NoRow, fields |-> {},
     outcome |-> "none"]

Init ==
    /\ now = StartOfRun
    /\ setting = NoRow
    /\ menu = [i \in MenuItems |->
                 [price |-> IF i = 1 THEN 1000 ELSE 550, is_available |-> TRUE]]
    /\ orders = [pk \in 1..MaxOrders |-> NoRow]
    /\ nextPk = 1
    /\ items = {}
    /\ creator = IdleCreator
    /\ worker = [w \in Workers |-> IdleWorker]
    /\ nreq = 0
    /\ operator = [o \in Operators |-> IdleOperator]
    /\ otherSettings = {}

Persisted == {pk \in DOMAIN orders : orders[pk] # NoRow}
ItemsOf(pk) == {r \in items : r.order = pk}

\* ------------------------------------------------------------ createOrder
\* OrderItemWriteSerializer on one submitted line: the field validators run
\* first; validate() (the price comparison) runs only when they all passed.
LineFieldErrors(line, catalog) ==
    (IF ~catalog[line.item].is_available THEN {"ItemUnavailable"} ELSE {})
    \cup (IF line.quantity <= 0 THEN {"InvalidQuantity"} ELSE {})
    \cup (IF line.unit_price <= 0 THEN {"InvalidUnitPrice"} ELSE {})

\* OrderItemWriteSerializer.validate without the comparison.
PriceCheck_Skipped(line, catalog) == {}

\* OrderItemWriteSerializer.validate.
PriceCheck(line, catalog) ==
    IF line.unit_price # catalog[line.item].price THEN {"PriceMismatch"} ELSE {}

LineErrors(line, catalog) ==
    IF LineFieldErrors(line, catalog) # {} THEN LineFieldErrors(line, catalog)
    ELSE PriceCheck(line, catalog)

\* OrderCreateSerializer.is_valid: every error of the request.
RequestErrors(lines, g, catalog) ==
    UNION {LineErrors(lines[i], catalog) : i \in DOMAIN lines}
    \cup (IF lines = <<>> THEN {"EmptyOrder"} ELSE {})
    \cup (IF g < 0 THEN {"InvalidGratuity"} ELSE {})

\* serializer.is_valid(raise_exception=True) on the submitted lines and gratuity.
CreateValidate(LineSeqs, Gratuities) ==
    /\ creator.pc = "idle"
    /\ nextPk <= MaxOrders
    /\ \E lines \in LineSeqs, g \in Gratuities :
         LET errs == RequestErrors(lines, g, menu)
         IN creator' = IF errs = {}
                       THEN [IdleCreator EXCEPT !.pc = "validated",
                                                !.lines = lines, !.gratuity = g]
                       ELSE [IdleCreator EXCEPT !.lines = lines, !.gratuity = g,
                                                !.outcome = "rejected",
                                                !.errors = errs]
    /\ UNCHANGED <<now, setting, menu, orders, nextPk, items, worker, nreq, operator,
                 otherSettings>>

\* Order.objects.create(user=..., gratuity=...): the admission gate, then the
\* INSERT of the order shell.
CreateShell ==
    /\ creator.pc = "validated"
    /\ LET rs == load(setting)
           row == NewOrder(creator.gratuity, now)
           admitted == Order_clean(rs, row.created_at)
       IN /\ setting' = rs
          /\ orders' = Order_save_insert(orders, nextPk, row, admitted)
          /\ nextPk' = IF orders'[nextPk] # NoRow THEN nextPk + 1 ELSE nextPk
          /\ creator' = IF admitted
                        THEN [creator EXCEPT !.pc = "items", !.order = nextPk,
                                             !.inst = row]
                        ELSE [creator EXCEPT !.pc = "idle",
                                             !.outcome = "AdmissionDenied"]
    /\ UNCHANGED <<now, menu, items, worker, nreq, operator, otherSettings>>

\* OrderItem.objects.create for the next submitted line; unique_together
\* (order, item) makes the INSERT of a repeated catalog item fail.
CreateItem ==
    /\ creator.pc = "items"
    /\ LET line == Head(creator.lines)
           row == OrderItem_row(creator.order, line)
           clash == \E r \in items : r.order = row.order /\ r.item = row.item
       IN IF clash
          THEN /\ creator' = [creator EXCEPT !.pc = "idle",
                                             !.outcome = "IntegrityError"]
               /\ items' = items
          ELSE /\ items' = items \cup {row}
               /\ creator' = [creator EXCEPT
                                !.lines = Tail(creator.lines),
                                !.pc = IF Tail(creator.lines) = <<>>
                                       THEN "prices" ELSE "items"]
    /\ UNCHANGED <<now, setting, menu, orders, nextPk, worker, nreq, operator,
                 otherSettings>>

\* order.calculate_prices() and refresh_from_db(): the aggregate over the
\* line items, then save(update_fields=[subtotal, tax_amount, total, gratuity]).
CalcPrices ==
    /\ creator.pc = "prices"
    /\ LET pk == creator.order
           self == Order_save_stamps(orders[pk],
                                     calculate_prices(creator.inst, ItemsOf(pk)),
                                     now)
           row == UpdatedRow(orders[pk], self,
                             {"subtotal", "tax_amount", "total", "gratuity"})
       IN /\ setting' = load(setting)
          /\ IF Order_full_clean(self) /\ OrderConstraints(row)
             THEN /\ orders' = [orders EXCEPT ![pk] = row]
                  /\ creator' = [creator EXCEPT !.pc = "idle", !.inst = NoRow,
                                                !.outcome = "created"]
             ELSE /\ orders' = orders
                  /\ creator' = [creator EXCEPT !.pc = "idle", !.inst = NoRow,
                                                !.outcome = "IntegrityError"]
    /\ UNCHANGED <<now, menu, nextPk, items, worker, nreq, operator, otherSettings>>

InitialMenu ==
    [i \in MenuItems |->
        [price |-> IF i = 1 THEN 1000 ELSE 550, is_available |-> TRUE]]

\* A catalog edit that also rewrites the line items sold at the old price.
SetMenuItem_Repricing ==
    \E i \in MenuItems, p \in Prices, a \in BOOLEAN :
        /\ menu[i] # [price |-> p, is_available |-> a]
        /\ menu' = [menu EXCEPT ![i] = [price |-> p, is_available |-> a]]
        /\ Cardinality({j \in MenuItems : menu'[j] # InitialMenu[j]}) <= MaxMenuEdits
        /\ items' = {IF r.item = i
                     THEN [r EXCEPT !.unit_price = p,
                                    !.item_total = Quantize(p * r.quantity, 1)]
                     ELSE r : r \in items}
        /\ UNCHANGED <<now, setting, orders, nextPk, creator, worker, nreq, operator,
                 otherSettings>>

\* MenuItemView (PUT/PATCH by staff): a new price or availability of an item;
\* at most MaxMenuEdits items are edited away from the initial list.
SetMenuItem ==
    \E i \in MenuItems, p \in Prices, a \in BOOLEAN :
        /\ menu[i] # [price |-> p, is_available |-> a]
        /\ menu' = [menu EXCEPT ![i] = [price |-> p, is_available |-> a]]
        /\ Cardinality({j \in MenuItems : menu'[j] # InitialMenu[j]}) <= MaxMenuEdits
        /\ UNCHANGED <<now, setting, orders, nextPk, items, creator, worker, nreq, operator,
                 otherSettings>>

\* ------------------------------------------------ inputs of the create runs
RECURSIVE SeqsUpTo(_, _)
SeqsUpTo(S, n) ==
    IF n = 0 THEN {<<>>}
    ELSE LET shorter == SeqsUpTo(S, n - 1)
         IN shorter \cup {Append(q, x) : q \in shorter, x \in S}

Line(i, q, p) == [item |-> i, quantity |-> q, unit_price |-> p]

\* Lines whose fields pass the field validators (the price may be stale), and
\* lines that fail one: a zero quantity (at a stale price), a zero unit price.
AllLines ==
    {Line(i, 2, p) : i \in MenuItems, p \in Prices}
    \cup {Line(1, 0, 550), Line(1, 2, 0)}
AllLineSeqs == SeqsUpTo(AllLines, MaxLines)
AllGratuities == {-100, 0, 300}

\* One well-formed request: two of item 1 at its list price.
PlainLineSeqs == {<<Line(1, 2, 1000)>>}
PlainGratuities == {300}

CreateNext ==
    \/ CreateValidate(AllLineSeqs, AllGratuities)
    \/ CreateShell
    \/ CreateItem
    \/ CalcPrices
    \/ SetMenuItem

SpecCreate == Init /\ [][CreateNext]_vars

\* ------------------------------------------------------ status transitions
\* valid_transactions with COMPLETE wrongly allowed from PENDING.
valid_transactions_SkipReady ==
    [s \in Status |->
        CASE s = PENDING -> {READY, CANCELED, COMPLETE}
          [] s = READY -> {COMPLETE, CANCELED}
          [] OTHER -> {}]

\* OrderStatusUpdateSerializer.validate_status: the table of allowed targets.
valid_transactions ==
    [s \in Status |->
        CASE s = PENDING -> {READY, CANCELED}
          [] s = READY -> {COMPLETE, CANCELED}
          [] s = COMPLETE -> {}
          [] s = CANCELED -> {}]

\* OrderCanceledByCustomerSerializer.save: the statuses a customer may cancel.
CustomerCancellable == {PENDING, READY}

\* promised_ready_time without the preparation minutes.
promised_ready_time_AtCreation(self, rs) == self.created_at

\* Order.promised_ready_time under the stored schedule rs.
promised_ready_time(self, rs) == self.created_at + rs.default_ready_minutes

\* make_order_ready that is due only at the promised minute itself.
make_order_ready_OnTheMinute(self, rs, t) ==
    [due |-> t = promised_ready_time(self, rs),
     self |-> [self EXCEPT !.status = READY]]

\* Order.make_order_ready: whether it is due, and the instance it then saves.
make_order_ready(self, rs, t) ==
    [due |-> t >= promised_ready_time(self, rs),
     self |-> [self EXCEPT !.status = READY]]

\* Order.complete_order up to the call of save().
complete_order(self, t) ==
    [self EXCEPT !.completed_at = t, !.status = COMPLETE]

\* Order.cancel_order up to the call of save().
cancel_order(self, reason, t) ==
    [self EXCEPT !.canceled_at = t, !.status = CANCELED, !.cancel_reason = reason]

StaffDefaultReason == "Canceled by staff"
LongReason ==
    "0123456789012345678901234567890123456789012345678901234567890123456789012345678901234567890123456789012345678901234567890123456789012345678901234567890"

\* What the two clients send as cancel_reason; NoReason is a request without it.
StaffReasons == {NoReason, ""}
CustomerReasons == {"", "changed my mind", LongReason}

\* A request that has been answered: what it asked, what it saw, the answer.
Finished(wk, outcome) ==
    [IdleWorker EXCEPT !.pk = wk.pk, !.value = wk.value, !.seen = wk.seen,
                       !.outcome = outcome]

\* StaffOrderViewSet.update_status up to serializer.is_valid(): get_object(),
\* the cancel_reason of the request (or its default), validate_status.
StaffBegin(w) ==
    /\ worker[w].pc = "idle"
    /\ nreq < MaxRequests
    /\ \E pk \in Persisted, value \in Status, reason \in StaffReasons :
         LET inst == orders[pk]
             wk == [IdleWorker EXCEPT
                      !.via = "staff", !.pk = pk, !.value = value,
                      !.reason = IF reason = NoReason THEN StaffDefaultReason
                                 ELSE reason,
                      !.seen = inst.status, !.inst = inst]
         IN worker' = [worker EXCEPT ![w] =
                IF value \in valid_transactions[inst.status]
                THEN [wk EXCEPT !.pc = "validated"]
                ELSE Finished(wk, "InvalidTransition")]
    /\ nreq' = nreq + 1
    /\ UNCHANGED <<now, setting, menu, orders, nextPk, items, creator, operator,
                 otherSettings>>

\* CustomerOrderViewSet.cancel up to the check of
\* OrderCanceledByCustomerSerializer.save: get_object(), validate_cancel_reason,
\* then the status test.
CustomerBegin(w) ==
    /\ worker[w].pc = "idle"
    /\ nreq < MaxRequests
    /\ \E pk \in Persisted, reason \in CustomerReasons :
         LET inst == orders[pk]
             wk == [IdleWorker EXCEPT
                      !.via = "customer", !.pk = pk, !.value = CANCELED,
                      !.reason = reason, !.seen = inst.status, !.inst = inst]
         IN worker' = [worker EXCEPT ![w] =
                IF reason = ""
                THEN Finished(wk, "InvalidReason")
                ELSE IF inst.status \notin CustomerCancellable
                THEN Finished(wk, "InvalidTransition")
                ELSE [wk EXCEPT !.pc = "validated"]]
    /\ nreq' = nreq + 1
    /\ UNCHANGED <<now, setting, menu, orders, nextPk, items, creator, operator,
                 otherSettings>>

\* OrderStatusUpdateSerializer.update / the customer's cancel_order call: the
\* model method sets the instance's fields, and Order.save reads the stored
\* row and stamps the instance.
WorkerApply(w) ==
    /\ worker[w].pc = "validated"
    /\ LET wk == worker[w]
           old == orders[wk.pk]
           rs == load(setting)
           ready == make_order_ready(wk.inst, rs, now)
       IN CASE wk.value = READY ->
                 /\ setting' = rs
                 /\ worker' = [worker EXCEPT ![w] =
                      IF ready.due
                      THEN [wk EXCEPT !.pc = "saving",
                                      !.inst = Order_save_stamps(old, ready.self, now),
                                      !.fields = {"status"}]
                      ELSE Finished(wk, "NotDue")]
            [] wk.value = COMPLETE ->
                 /\ setting' = setting
                 /\ worker' = [worker EXCEPT ![w] =
                      [wk EXCEPT !.pc = "saving",
                                 !.inst = Order_save_stamps(
                                            old, complete_order(wk.inst, now), now),
                                 !.fields = {"status", "completed_at"}]]
            [] wk.value = CANCELED ->
                 /\ setting' = setting
                 /\ worker' = [worker EXCEPT ![w] =
                      [wk EXCEPT !.pc = "saving",
                                 !.inst = Order_save_stamps(
                                            old,
                                            cancel_order(wk.inst, wk.reason, now),
                                            now),
                                 !.fields = {"status", "canceled_at", "cancel_reason"}]]
    /\ UNCHANGED <<now, menu, orders, nextPk, items, creator, nreq, operator,
                 otherSettings>>

\* Order.save whose clean() runs the admission gate on stored orders too.
WorkerWrite_Gated(w) ==
    /\ worker[w].pc = "saving"
    /\ LET wk == worker[w]
           row == UpdatedRow(orders[wk.pk], wk.inst, wk.fields)
       IN /\ setting' = load(setting)
          /\ IF ~(Order_full_clean(wk.inst)
                  /\ Order_clean(load(setting), wk.inst.created_at))
             THEN /\ orders' = orders
                  /\ worker' = [worker EXCEPT ![w] = Finished(wk, "ValidationError")]
             ELSE IF ~(OrderConstraints(wk.inst) /\ OrderConstraints(row))
             THEN /\ orders' = orders
                  /\ worker' = [worker EXCEPT ![w] = Finished(wk, "IntegrityError")]
             ELSE /\ orders' = [orders EXCEPT ![wk.pk] = row]
                  /\ worker' = [worker EXCEPT ![w] = Finished(wk, "ok")]
    /\ UNCHANGED <<now, menu, nextPk, items, creator, nreq, operator, otherSettings>>

\* The rest of Order.save: full_clean(), then the UPDATE of update_fields,
\* which the table's CHECK constraints may refuse.
WorkerWrite(w) ==
    /\ worker[w].pc = "saving"
    /\ LET wk == worker[w]
           row == UpdatedRow(orders[wk.pk], wk.inst, wk.fields)
       IN /\ setting' = load(setting)
          /\ IF ~Order_full_clean(wk.inst)
             THEN /\ orders' = orders
                  /\ worker' = [worker EXCEPT ![w] = Finished(wk, "ValidationError")]
             ELSE IF ~(OrderConstraints(wk.inst) /\ OrderConstraints(row))
             THEN /\ orders' = orders
                  /\ worker' = [worker EXCEPT ![w] = Finished(wk, "IntegrityError")]
             ELSE /\ orders' = [orders EXCEPT ![wk.pk] = row]
                  /\ worker' = [worker EXCEPT ![w] = Finished(wk, "ok")]
    /\ UNCHANGED <<now, menu, nextPk, items, creator, nreq, operator, otherSettings>>

\* ------------------------------------------------------- clock and schedule
Tick ==
    /\ now + TickMinutes <= StartOfRun + MaxTicks * TickMinutes
    /\ now' = now + TickMinutes
    /\ UNCHANGED <<setting, menu, orders, nextPk, items, creator, worker, nreq, operator,
                 otherSettings>>

\* RestaurantSettingSerializer.validate on the candidate record.
RestaurantSettingSerializer_validate(c) ==
    /\ ~(c.min_ready_minutes > c.max_ready_minutes)
    /\ c.open_time < c.close_time
    /\ (c.min_ready_minutes <= c.default_ready_minutes
        /\ c.default_ready_minutes <= c.max_ready_minutes)
    /\ ~((c.close_time - c.default_ready_minutes) % MinutesPerDay < c.open_time)

Merge(rs, patch) ==
    [f \in DOMAIN rs |-> IF f \in DOMAIN patch THEN patch[f] ELSE rs[f]]

\* Requests of the operator: a shorter or the default preparation time, and
\* one below min_ready_minutes, which is refused.
ReadyPatches == {[default_ready_minutes |-> m] : m \in {5, 10, 20}}

\* RestaurantSettingsView PATCH: the serializer validates the stored record
\* overlaid with the request, then RestaurantSetting.save() runs full_clean()
\* and writes the row.
UpdateSetting(Patches) ==
    /\ setting # NoRow
    /\ \E patch \in Patches :
         LET c == Merge(setting, patch)
         IN setting' = IF RestaurantSettingSerializer_validate(c)
                          /\ RestaurantSetting_clean(c)
                       THEN c ELSE setting
    /\ UNCHANGED <<now, menu, orders, nextPk, items, creator, worker, nreq, operator,
                 otherSettings>>

Next ==
    \/ Tick
    \/ UpdateSetting(ReadyPatches)
    \/ CreateValidate(PlainLineSeqs, PlainGratuities)
    \/ CreateShell
    \/ CreateItem
    \/ CalcPrices
    \/ \E w \in Workers : StaffBegin(w)
    \/ \E w \in Workers : CustomerBegin(w)
    \/ \E w \in Workers : WorkerApply(w)
    \/ \E w \in Workers : WorkerWrite(w)

Spec == Init /\ [][Next]_vars


\* ----------------------------------------------------------- the gate runs
Setting(acc, mn, mx, df, op, cl) ==
    [is_accepting_orders |-> acc, min_ready_minutes |-> mn,
     max_ready_minutes |-> mx, default_ready_minutes |-> df,
     open_time |-> op, close_time |-> cl]

\* Schedules a stored row can hold (each passes RestaurantSetting.clean): the
\* defaults, a manual closure, no preparation time, the longest preparation
\* time, and a short night shift whose last call wraps around midnight.
GateSettings ==
    {rs \in {DefaultSetting,
             [DefaultSetting EXCEPT !.is_accepting_orders = FALSE],
             Setting(TRUE, 0, 75, 0, HM(11, 30), HM(21, 30)),
             Setting(TRUE, 10, 75, 75, HM(11, 30), HM(21, 30)),
             Setting(TRUE, 10, 75, 60, HM(0, 10), HM(0, 30))} :
        RestaurantSetting_clean(rs)}

GateTimes ==
    {HM(0, 20), HM(0, 30), HM(11, 29), HM(11, 30), HM(20, 15), HM(20, 16),
     HM(21, 5), HM(21, 10), HM(21, 15), HM(21, 30), HM(23, 40), HM(24 + 21, 5)}

InitGate ==
    /\ now \in GateTimes
    /\ setting \in GateSettings \cup {NoRow}
    /\ menu = InitialMenu
    /\ orders = [pk \in 1..MaxOrders |-> NoRow]
    /\ nextPk = 1
    /\ items = {}
    /\ creator = IdleCreator
    /\ worker = [w \in Workers |-> IdleWorker]
    /\ nreq = 0
    /\ operator = [o \in Operators |-> IdleOperator]
    /\ otherSettings = {}

GateNext ==
    \/ CreateValidate(PlainLineSeqs, PlainGratuities)
    \/ CreateShell
    \/ CreateItem
    \/ CalcPrices

SpecGate == InitGate /\ [][GateNext]_vars

\* -------------------------------------------------------- the pricing runs
\* order.calculate_prices() called again on a stored order whose prices were
\* computed before: the instance is read from the table, the aggregate is
\* taken over its line items, and the four money columns are written.
Recalculate ==
    /\ creator.pc = "idle"
    /\ creator.outcome \in {"created", "recalculated"}
    /\ LET pk == creator.order
           self == Order_save_stamps(orders[pk],
                                     calculate_prices(orders[pk], ItemsOf(pk)),
                                     now)
           row == UpdatedRow(orders[pk], self,
                             {"subtotal", "tax_amount", "total", "gratuity"})
       IN /\ setting' = load(setting)
          /\ IF Order_full_clean(self) /\ OrderConstraints(row)
             THEN /\ orders' = [orders EXCEPT ![pk] = row]
                  /\ creator' = [creator EXCEPT !.outcome = "recalculated"]
             ELSE /\ orders' = orders
                  /\ creator' = [creator EXCEPT !.outcome = "IntegrityError"]
    /\ UNCHANGED <<now, menu, nextPk, items, worker, nreq, operator, otherSettings>>

\* Requests at the list prices (10.00 and 5.50): subtotals whose tax is exact
\* (11.00, 20.00) and subtotals whose tax ends in half a cent (5.50, 25.50).
PriceLines == {Line(1, 2, 1000), Line(2, 1, 550), Line(2, 2, 550)}
PriceLineSeqs == SeqsUpTo(PriceLines, MaxLines) \ {<<>>}
PriceGratuities == {0, 125, 300}

PriceNext ==
    \/ CreateValidate(PriceLineSeqs, PriceGratuities)
    \/ CreateShell
    \/ CreateItem
    \/ CalcPrices
    \/ Recalculate

SpecPrice == Init /\ [][PriceNext]_vars

\* ------------------------------------------------------- the catalog runs
\* Orders at the list prices, catalog edits and later price computations.
SnapshotNext ==
    \/ CreateValidate(PriceLineSeqs, PriceGratuities)
    \/ CreateShell
    \/ CreateItem
    \/ CalcPrices
    \/ SetMenuItem
    \/ Recalculate

SpecSnapshot == Init /\ [][SnapshotNext]_vars

\* ---------------------------------------------------------- the view runs
\* Who sends the create request: the user named in the path, or a staff user
\* under another user's path (any other requester is refused before the
\* serializer is reached).
Requesters == {"owner", "staff"}

\* CustomerOrderViewSet.create after serializer.save() has returned the
\* order: the serializer stored it under request.user, so for a staff user
\* under another user's path order.user differs from the path's user and the
\* view deletes the order (its line items go with it, on_delete=CASCADE);
\* otherwise it answers 201 with the order.
ViewRespond ==
    /\ creator.pc = "idle"
    /\ creator.outcome = "created"
    /\ \E requester \in Requesters :
         IF requester = "staff"
         THEN /\ orders' = [orders EXCEPT ![creator.order] = NoRow]
              /\ items' = items \ ItemsOf(creator.order)
              /\ creator' = [creator EXCEPT !.outcome = "UserMismatch"]
         ELSE /\ orders' = orders
              /\ items' = items
              /\ creator' = [creator EXCEPT !.outcome = "returned"]
    /\ UNCHANGED <<now, setting, menu, nextPk, worker, nreq, operator, otherSettings>>

ViewNext ==
    \/ Tick
    \/ CreateValidate(PriceLineSeqs, PriceGratuities)
    \/ CreateShell
    \/ CreateItem
    \/ CalcPrices
    \/ ViewRespond

SpecView == Init /\ [][ViewNext]_vars

\* ------------------------------------------------------- the schedule runs
\* RestaurantSetting.save, self.pk = 1: the key the row is written under,
\* whatever key the instance carried.
RestaurantSetting_save_pk(pk) == 1

\* RestaurantSetting.load() by any caller: get_or_create(pk=1).
ScheduleLoad(o) ==
    /\ operator[o].pc = "idle"
    /\ setting' = load(setting)
    /\ operator' = [operator EXCEPT ![o] =
          [pc |-> "idle", op |-> "load", inst |-> setting', outcome |-> "loaded"]]
    /\ UNCHANGED <<now, menu, orders, nextPk, items, creator, worker, nreq,
                   otherSettings>>

\* RestaurantSettingsView PUT/PATCH up to serializer.is_valid(): get_object()
\* reads the stored row, validate() checks the row overlaid with the request.
ScheduleBegin(o, Patches) ==
    /\ operator[o].pc = "idle"
    /\ setting # NoRow
    /\ \E patch \in Patches :
         LET c == Merge(setting, patch)
         IN operator' = [operator EXCEPT ![o] =
              IF RestaurantSettingSerializer_validate(c)
              THEN [pc |-> "saving", op |-> "update", inst |-> c, outcome |-> "none"]
              ELSE [pc |-> "idle", op |-> "update", inst |-> c,
                    outcome |-> "ScheduleError"]]
    /\ UNCHANGED <<now, setting, menu, orders, nextPk, items, creator, worker,
                   nreq, otherSettings>>

\* RestaurantSettingsView POST up to serializer.is_valid(): there is no
\* instance, validate() checks the submitted record.
ScheduleCreateBegin(o, Records) ==
    /\ operator[o].pc = "idle"
    /\ \E c \in Records :
         operator' = [operator EXCEPT ![o] =
              IF RestaurantSettingSerializer_validate(c)
              THEN [pc |-> "saving", op |-> "create", inst |-> c, outcome |-> "none"]
              ELSE [pc |-> "idle", op |-> "create", inst |-> c,
                    outcome |-> "ScheduleError"]]
    /\ UNCHANGED <<now, setting, menu, orders, nextPk, items, creator, worker,
                   nreq, otherSettings>>

\* serializer.save() -> RestaurantSetting.save(): pk = 1, full_clean() (clean,
\* then for a new instance the uniqueness of its pk), then the write of the
\* whole row.
ScheduleWrite(o) ==
    /\ operator[o].pc = "saving"
    /\ LET c == operator[o].inst
           adding == operator[o].op = "create"
           pk == RestaurantSetting_save_pk(IF adding THEN NoPk ELSE 1)
           answer(x) == [operator EXCEPT ![o] = [@ EXCEPT !.pc = "idle",
                                                          !.outcome = x]]
       IN IF ~RestaurantSetting_clean(c)
          THEN /\ operator' = answer("ScheduleError")
               /\ UNCHANGED <<setting, otherSettings>>
          ELSE IF adding /\ pk = 1 /\ setting # NoRow
          THEN /\ operator' = answer("ValidationError")
               /\ UNCHANGED <<setting, otherSettings>>
          ELSE IF pk = 1
          THEN /\ operator' = answer("ok")
               /\ setting' = c
               /\ UNCHANGED otherSettings
          ELSE /\ operator' = answer("ok")
               /\ otherSettings' = otherSettings \cup {c}
               /\ UNCHANGED setting
    /\ UNCHANGED <<now, menu, orders, nextPk, items, creator, worker, nreq>>

\* RestaurantSettingsView DELETE (ModelViewSet.destroy): instance.delete().
ScheduleDestroy(o) ==
    /\ operator[o].pc = "idle"
    /\ setting # NoRow
    /\ setting' = NoRow
    /\ operator' = [operator EXCEPT ![o] =
          [pc |-> "idle", op |-> "destroy", inst |-> NoRow, outcome |-> "deleted"]]
    /\ UNCHANGED <<now, menu, orders, nextPk, items, creator, worker, nreq,
                   otherSettings>>

\* Single-field requests: an early close, a close just after midnight, a long
\* preparation time, an opening just after midnight, and two that are refused
\* from the defaults (min above max, opening after the close).
SchedulePatches ==
    {[close_time |-> HM(12, 0)], [close_time |-> HM(0, 30)],
     [default_ready_minutes |-> 60], [open_time |-> HM(0, 10)],
     [min_ready_minutes |-> 80], [open_time |-> HM(22, 0)]}

\* Whole records sent by POST: a short lunch service, and one that closes
\* before it opens.
ScheduleRecords ==
    {Setting(TRUE, 10, 75, 20, HM(11, 30), HM(12, 0)),
     Setting(TRUE, 10, 75, 20, HM(21, 30), HM(11, 30))}

ScheduleNext ==
    \/ \E o \in Operators : ScheduleLoad(o)
    \/ \E o \in Operators : ScheduleBegin(o, SchedulePatches)
    \/ \E o \in Operators : ScheduleCreateBegin(o, ScheduleRecords)
    \/ \E o \in Operators : ScheduleWrite(o)
    \/ \E o \in Operators : ScheduleDestroy(o)

SpecSchedule == Init /\ [][ScheduleNext]_vars

\* ------------------------------------------------- the runs with closures
\* Requests of the operator that close the restaurant: the manual switch,
\* and a closing time a quarter past nine.
LifePatches == {[is_accepting_orders |-> FALSE], [close_time |-> HM(21, 15)]}

LifeNext ==
    \/ Tick
    \/ UpdateSetting(LifePatches)
    \/ CreateValidate(PlainLineSeqs, PlainGratuities)
    \/ CreateShell
    \/ CreateItem
    \/ CalcPrices
    \/ Recalculate
    \/ \E w \in Workers : StaffBegin(w)
    \/ \E w \in Workers : CustomerBegin(w)
    \/ \E w \in Workers : WorkerApply(w)
    \/ \E w \in Workers : WorkerWrite(w)

SpecLife == Init /\ [][LifeNext]_vars

\* ------------------------------------------------------------------ claims
AllowedPairs ==
    {<<PENDING, READY>>, <<PENDING, CANCELED>>,
     <<READY, COMPLETE>>, <<READY, CANCELED>>}

Refusals == {"InvalidTransition", "InvalidReason"}

Asked(w) == worker[w].value # "none"

\* C1: a status-change request whose (observed status, requested status) pair
\* is not one of the four allowed pairs is answered with a refusal through
\* either entry point and never gets past validation, and the step that
\* refuses a request changes no order row.
C1_InvalidPairsRejected ==
    /\ [](\A w \in Workers :
            (Asked(w) /\ <<worker[w].seen, worker[w].value>> \notin AllowedPairs)
            => (worker[w].pc = "idle" /\ worker[w].outcome \in Refusals))
    /\ [][\A w \in Workers :
            (worker'[w] # worker[w] /\ worker'[w].outcome \in Refusals)
            => orders' = orders]_vars

C1_Witness ==
    \E w \in Workers :
        /\ worker[w].seen = COMPLETE /\ worker[w].value = CANCELED
        /\ worker[w].outcome = "InvalidTransition"
        /\ \E pk \in Persisted : orders[pk].status = COMPLETE


Terminal == {COMPLETE, CANCELED}

\* C2: once the stored status of an order is COMPLETE or CANCELED, no step of
\* any request changes it to another status.
C2_TerminalAbsorbing ==
    [][\A pk \in Persisted :
         orders[pk].status \in Terminal
         => orders'[pk].status = orders[pk].status]_vars

Answered(w) == worker[w].pc = "idle" /\ worker[w].outcome # "none"

\* C3: of two requests on the same order that both found it READY, one asking
\* for COMPLETE and one for CANCELED (with an acceptable reason), exactly one
\* succeeds and the other is answered InvalidTransition.
C3_OneWinsOtherInvalid ==
    \A w1, w2 \in Workers :
        (/\ w1 # w2 /\ Answered(w1) /\ Answered(w2)
         /\ worker[w1].pk = worker[w2].pk
         /\ worker[w1].seen = READY /\ worker[w1].value = COMPLETE
         /\ worker[w2].seen = READY /\ worker[w2].value = CANCELED
         /\ worker[w2].outcome \notin {"InvalidReason", "ValidationError"})
        => {worker[w1].outcome, worker[w2].outcome} = {"ok", "InvalidTransition"}

\* C4: a transition's write is applied only while the stored status still is
\* the status the request was validated against.
C4_WriteConditionedOnSeen ==
    [][\A w \in Workers :
         (worker[w].pc = "saving" /\ worker'[w].pc = "idle"
          /\ worker'[w].outcome = "ok")
         => orders[worker[w].pk].status = worker[w].seen]_vars


GateHasRun == creator.order # NoPk \/ creator.outcome = "AdmissionDenied"
Admitted == creator.order # NoPk

\* C5: an order creation at time of day t is admitted exactly when the current
\* schedule is accepting orders and openTime <= t <= lastCall and
\* t < closeTime (lastCall as the schedule reports it); with open 11:30,
\* close 21:30 and 20 minutes (lastCall 21:10), 21:05 is admitted and 21:15
\* is denied.
C5_AdmissionRule ==
    LET rs == load(setting)
        t == TimeOfDay(now)
    IN /\ GateHasRun =>
            (Admitted <=> (/\ rs.is_accepting_orders = TRUE
                           /\ rs.open_time <= t /\ t <= last_call(rs)
                           /\ t < rs.close_time))
       /\ (GateHasRun /\ rs = Setting(TRUE, 10, 75, 20, HM(11, 30), HM(21, 30)))
            => /\ last_call(rs) = HM(21, 10)
               /\ t = HM(21, 5) => Admitted
               /\ t = HM(21, 15) => ~Admitted

C5_Witness ==
    /\ Admitted
    /\ TimeOfDay(now) = HM(21, 5)
    /\ setting = Setting(TRUE, 10, 75, 20, HM(11, 30), HM(21, 30))
    /\ orders[creator.order].created_at = now

\* C6: the step in which the admission gate denies a creation persists no
\* order row and no line-item row.
C6_DeniedPersistsNothing ==
    [][(creator.pc = "validated" /\ creator'.outcome = "AdmissionDenied")
       => (orders' = orders /\ items' = items)]_vars

C6_Witness ==
    /\ creator.outcome = "AdmissionDenied"
    /\ setting # NoRow /\ ~setting.is_accepting_orders
    /\ Persisted = {} /\ items = {}

\* C7: a reader of the stored rows never sees an order without its line
\* items, nor line items without the totals computed from them.
C7_NoPartialOrder ==
    \A pk \in Persisted :
        /\ ItemsOf(pk) # {}
        /\ orders[pk].subtotal = SumItemTotal(ItemsOf(pk))
        /\ orders[pk].total =
             orders[pk].subtotal + orders[pk].tax_amount + orders[pk].gratuity

\* C8: when the insert of a line item fails after the order shell was
\* inserted, neither the shell nor any of its line items stays stored.
C8_AllOrNothing ==
    creator.outcome = "IntegrityError"
    => (orders[creator.order] = NoRow /\ ItemsOf(creator.order) = {})

Stale(line) == line.unit_price # menu[line.item].price
Submitted == creator.pc = "idle" /\ creator' # creator

\* C9 as stated: a createOrder with a line whose unit price differs from the
\* catalog price is rejected with PriceMismatch and persists nothing.
C9_StalePriceNamesMismatch ==
    [][(Submitted /\ \E i \in DOMAIN creator'.lines : Stale(creator'.lines[i]))
       => (/\ creator'.outcome = "rejected"
           /\ "PriceMismatch" \in creator'.errors
           /\ orders' = orders /\ items' = items /\ nextPk' = nextPk)]_vars

\* C9 amended: such a request is rejected and persists nothing; the rejection
\* names PriceMismatch when a line with a differing price passes the field
\* checks of its item, quantity and unit price.
C9_StalePriceRejected ==
    [][(Submitted /\ \E i \in DOMAIN creator'.lines : Stale(creator'.lines[i]))
       => (/\ creator'.outcome = "rejected"
           /\ orders' = orders /\ items' = items /\ nextPk' = nextPk
           /\ (\E i \in DOMAIN creator'.lines :
                 /\ Stale(creator'.lines[i])
                 /\ LineFieldErrors(creator'.lines[i], menu) = {})
              => "PriceMismatch" \in creator'.errors)]_vars

C9_Witness ==
    /\ creator.outcome = "rejected"
    /\ "PriceMismatch" \in creator.errors
    /\ \E i \in DOMAIN creator.lines : Stale(creator.lines[i])
    /\ Persisted = {} /\ items = {}

\* C10: every stored order has total = subtotal + taxAmount + gratuity.
C10_TotalIsSum ==
    \A pk \in Persisted :
        orders[pk].total =
            orders[pk].subtotal + orders[pk].tax_amount + orders[pk].gratuity

\* n / d rounded to the whole number k with ties away from zero (n, d >= 0).
IsHalfAwayRounding(k, n, d) == 2 * d * k - d <= 2 * n /\ 2 * n < 2 * d * k + d

Priced == creator.outcome \in {"created", "recalculated"}

\* C11: once the prices of an order are computed, every line has
\* itemTotal = unitPrice * quantity, subtotal is the sum of the item totals,
\* taxAmount is subtotal * taxRate rounded to the cent with ties away from
\* zero, gratuity is the supplied gratuity and total is their sum; for
\* {10.00 x 2, 5.50 x 1}, rate 0.07 and gratuity 3.00 this is 25.50, 1.79
\* and 30.29.
C11_PriceRule ==
    Priced =>
        LET o == orders[creator.order]
            rows == ItemsOf(creator.order)
        IN /\ \A r \in rows : r.item_total = r.unit_price * r.quantity
           /\ o.subtotal = SumItemTotal(rows)
           /\ IsHalfAwayRounding(o.tax_amount, o.subtotal * o.tax_rate, 100)
           /\ o.gratuity = creator.gratuity
           /\ o.total = o.subtotal + o.tax_amount + o.gratuity
           /\ ({[quantity |-> r.quantity, unit_price |-> r.unit_price] : r \in rows}
                 = {[quantity |-> 2, unit_price |-> 1000],
                    [quantity |-> 1, unit_price |-> 550]}
               /\ o.tax_rate = 7 /\ creator.gratuity = 300)
              => (o.subtotal = 2550 /\ o.tax_amount = 179 /\ o.total = 3029)

C11_Witness ==
    /\ creator.outcome = "created"
    /\ Cardinality(ItemsOf(creator.order)) = 2
    /\ orders[creator.order].subtotal = 2550
    /\ orders[creator.order].tax_amount = 179
    /\ orders[creator.order].total = 3029

\* C12: running calculate_prices again on an order whose line items, tax
\* rate and gratuity are unchanged leaves subtotal, taxAmount, gratuity and
\* total as the first run left them.
C12_PricesIdempotent ==
    [][(Priced /\ creator'.outcome = "recalculated" /\ items' = items)
       => orders' = orders]_vars

C12_Witness ==
    /\ creator.outcome = "recalculated"
    /\ orders[creator.order].total = 3029

\* The four schedule checks as the schedule's contract words them, lastCall
\* being closeTime - defaultReadyMinutes on the same day.
FourChecks(c) ==
    /\ c.open_time < c.close_time
    /\ c.min_ready_minutes <= c.max_ready_minutes
    /\ c.min_ready_minutes <= c.default_ready_minutes
    /\ c.default_ready_minutes <= c.max_ready_minutes
    /\ c.close_time - c.default_ready_minutes >= c.open_time

\* C13: whatever lazy creation, whole-record writes and single-field writes
\* have run, in whatever interleaving, the stored schedule has
\* openTime < closeTime, minReady <= defaultReady <= maxReady and
\* lastCall >= openTime.
C13_ScheduleAlwaysValid ==
    setting # NoRow =>
        /\ setting.open_time < setting.close_time
        /\ setting.min_ready_minutes <= setting.default_ready_minutes
        /\ setting.default_ready_minutes <= setting.max_ready_minutes
        /\ setting.close_time - setting.default_ready_minutes >= setting.open_time

\* C14: a schedule write whose candidate record fails one of the four checks
\* is answered with an error, and the stored schedule is the same after it.
C14_InvalidWriteRejected ==
    [][\A o \in Operators :
         (/\ operator'[o] # operator[o]
          /\ operator'[o].op \in {"update", "create"}
          /\ ~FourChecks(operator'[o].inst))
         => (/\ operator'[o].outcome = "ScheduleError"
             /\ setting' = setting
             /\ otherSettings' = otherSettings)]_vars

\* C15: the last call computed for a stored schedule is closeTime minus
\* defaultReadyMinutes in minutes of the same day, with no wrap-around.
C15_LastCallSameDay ==
    setting # NoRow =>
        last_call(setting) = setting.close_time - setting.default_ready_minutes

\* C19: once the schedule row exists, no request of the schedule management
\* interface removes it.
C19_NeverDeleted ==
    [][setting # NoRow => setting' # NoRow]_vars

\* C20: no schedule row is ever stored beside the row with pk 1; load()
\* stores the defaults only when that row is absent, and otherwise returns
\* the stored row and leaves every field of it as it was.
C20_SingletonLoad ==
    /\ [](otherSettings = {})
    /\ [][\A o \in Operators :
            (operator'[o] # operator[o] /\ operator'[o].op = "load")
            => (/\ setting' = IF setting = NoRow THEN DefaultSetting ELSE setting
                /\ operator'[o].inst = setting')]_vars

C20_Witness ==
    \E o \in Operators :
        /\ operator[o].op = "load"
        /\ operator[o].inst = setting
        /\ setting # DefaultSetting
        /\ \E q \in Operators : operator[q].op = "create" /\ operator[q].outcome = "ValidationError"

\* C16: a READY request on an order it found PENDING makes the order READY
\* exactly when the clock has reached createdAt + defaultReadyMinutes of the
\* schedule stored when the request runs; before that it is answered "not
\* due" without an error and no order row changes. When it is due, the write
\* changes the status to READY and nothing else.
C16_ReadyWhenDue ==
    /\ [][\A w \in Workers :
            (worker[w].pc = "validated" /\ worker[w].value = READY
             /\ worker'[w] # worker[w])
            => LET o == orders[worker[w].pk]
                   due == now >= o.created_at + load(setting).default_ready_minutes
               IN /\ worker[w].seen = PENDING
                  /\ due => (/\ worker'[w].pc = "saving"
                             /\ worker'[w].inst.status = READY)
                  /\ ~due => (/\ worker'[w].pc = "idle"
                              /\ worker'[w].outcome = "NotDue"
                              /\ orders' = orders)]_vars
    /\ [][\A w \in Workers :
            (worker[w].pc = "saving" /\ worker[w].value = READY
             /\ worker'[w] # worker[w])
            => (/\ worker'[w].outcome = "ok"
                /\ orders' = [orders EXCEPT ![worker[w].pk].status = READY])]_vars

C16_Witness ==
    \E w1, w2 \in Workers :
        /\ worker[w1].value = READY /\ worker[w1].outcome = "NotDue"
        /\ worker[w2].value = READY /\ worker[w2].outcome = "ok"
        /\ worker[w1].pk = worker[w2].pk
        /\ orders[worker[w2].pk].status = READY
        /\ setting # NoRow /\ setting.default_ready_minutes = 20
        /\ now = orders[worker[w2].pk].created_at + 20

\* C17: a stored order has a non-empty cancelReason exactly when its
\* canceledAt is set, through both cancel entry points and whatever reason
\* the request carried.
C17_ReasonIffCanceledAt ==
    \A pk \in Persisted :
        (orders[pk].cancel_reason \notin {NoReason, ""})
        <=> (orders[pk].canceled_at # NoTime)

\* C18: no stored order has both completedAt and canceledAt, and each of
\* them, when set, is not before createdAt.
C18_TimestampsExclusive ==
    \A pk \in Persisted :
        /\ ~(orders[pk].completed_at # NoTime /\ orders[pk].canceled_at # NoTime)
        /\ orders[pk].completed_at # NoTime
             => orders[pk].completed_at >= orders[pk].created_at
        /\ orders[pk].canceled_at # NoTime
             => orders[pk].canceled_at >= orders[pk].created_at

C18_Witness ==
    \E w \in Workers :
        /\ worker[w].value = CANCELED /\ worker[w].outcome = "IntegrityError"
        /\ orders[worker[w].pk].completed_at # NoTime
        /\ orders[worker[w].pk].canceled_at = NoTime

\* C21: the admission check plays no part once the order is stored. The
\* write of a transition on an order that still has the status the request
\* found, carries no outcome timestamp and gets a reason that fits the column
\* succeeds, and a price computation on a stored order succeeds, whatever
\* the schedule's isAcceptingOrders flag and hours are at that moment.
C21_GateOnlyOnInsert ==
    /\ [][\A w \in Workers :
            (/\ worker[w].pc = "saving" /\ worker'[w] # worker[w]
             /\ orders[worker[w].pk].status = worker[w].seen
             /\ orders[worker[w].pk].completed_at = NoTime
             /\ orders[worker[w].pk].canceled_at = NoTime
             /\ (worker[w].value = CANCELED
                 => Len(worker[w].reason) <= CancelReasonMaxLength))
            => (/\ worker'[w].outcome = "ok"
                /\ orders'[worker[w].pk].status = worker[w].value)]_vars
    /\ [][(/\ creator.order # NoPk /\ creator.pc \in {"prices", "idle"}
           /\ creator' # creator /\ creator'.order = creator.order)
          => creator'.outcome \in {"created", "recalculated"}]_vars

C21_Witness ==
    \E w \in Workers :
        /\ worker[w].value = COMPLETE /\ worker[w].outcome = "ok"
        /\ orders[worker[w].pk].status = COMPLETE
        /\ orders[worker[w].pk].completed_at = now
        /\ setting # NoRow /\ ~setting.is_accepting_orders
        /\ TimeOfDay(now) >= setting.close_time
        /\ creator.outcome = "recalculated"

\* C22: the write of a transition to COMPLETE on an order row that carries
\* canceled_at leaves the row with completed_at set and canceled_at cleared,
\* and the write of a transition to CANCELED on a row that carries
\* completed_at leaves it with canceled_at set and completed_at cleared.
C22_OtherTimestampCleared ==
    [][\A w \in Workers :
         (worker[w].pc = "saving" /\ worker'[w] # worker[w])
         => /\ (worker[w].value = COMPLETE
                 /\ orders[worker[w].pk].canceled_at # NoTime)
                => (/\ orders'[worker[w].pk].completed_at # NoTime
                    /\ orders'[worker[w].pk].canceled_at = NoTime)
            /\ (worker[w].value = CANCELED
                 /\ orders[worker[w].pk].completed_at # NoTime)
                => (/\ orders'[worker[w].pk].canceled_at # NoTime
                    /\ orders'[worker[w].pk].completed_at = NoTime)]_vars

\* The columns a transition to the given status owns.
OwnedColumns(value) ==
    CASE value = READY -> {"status"}
      [] value = COMPLETE -> {"status", "completed_at"}
      [] value = CANCELED -> {"status", "canceled_at", "cancel_reason"}
      [] OTHER -> {}

\* C23: every step of a status transition (to READY, COMPLETE or CANCELED)
\* leaves the line items and, of every order, created_at, tax_rate, subtotal,
\* tax_amount, gratuity and total unchanged; its write changes only status,
\* the outcome timestamp it owns and, for a cancel, cancel_reason.
C23_TransitionFrame ==
    [][\A w \in Workers :
         worker'[w] # worker[w]
         => /\ items' = items
            /\ \A pk \in Persisted :
                 \A f \in DOMAIN orders[pk] :
                    orders'[pk][f] # orders[pk][f]
                    => (/\ worker[w].pc = "saving" /\ worker[w].pk = pk
                        /\ f \in OwnedColumns(worker[w].value))]_vars

C23_Witness ==
    \E w \in Workers :
        /\ worker[w].value = CANCELED /\ worker[w].outcome = "ok"
        /\ orders[worker[w].pk].status = CANCELED
        /\ orders[worker[w].pk].canceled_at # NoTime
        /\ orders[worker[w].pk].total > 0
        /\ ItemsOf(worker[w].pk) # {}

\* An order whose creation has completed: its prices have been computed.
PricedOrder(pk) == orders[pk] # NoRow /\ orders[pk].subtotal > 0

\* C24: once an order has been created, every later step, a change of a
\* catalog price and a price computation after it included, leaves its line
\* items (unit_price and item_total) and its subtotal, tax_amount, gratuity
\* and total unchanged.
C24_PriceSnapshot ==
    [][\A pk \in 1..MaxOrders :
         PricedOrder(pk)
         => /\ ItemsOf(pk)' = ItemsOf(pk)
            /\ orders'[pk] # NoRow
            /\ orders'[pk].subtotal = orders[pk].subtotal
            /\ orders'[pk].tax_amount = orders[pk].tax_amount
            /\ orders'[pk].gratuity = orders[pk].gratuity
            /\ orders'[pk].total = orders[pk].total]_vars

C24_Witness ==
    /\ creator.outcome = "recalculated"
    /\ PricedOrder(creator.order)
    /\ \E r \in ItemsOf(creator.order) : menu[r.item].price # r.unit_price
    /\ orders[creator.order].subtotal = SumItemTotal(ItemsOf(creator.order))

\* C25: every stored schedule has open_time < last call < close_time, both
\* strictly, the last call being the time of day calculate_last_call returns.
C25_StrictOrdering ==
    setting # NoRow
    => (/\ setting.open_time < last_call(setting)
        /\ last_call(setting) < setting.close_time)

C27_StatusMatchesTimestamps ==
    \A pk \in Persisted :
        /\ (orders[pk].status = COMPLETE) <=> (orders[pk].completed_at # NoTime)
        /\ (orders[pk].status = CANCELED) <=> (orders[pk].canceled_at # NoTime)
        /\ orders[pk].status \in {PENDING, READY}
           => orders[pk].cancel_reason = NoReason

\* C28: for a stored schedule and a time of day t, is_accepting_orders_now(t)
\* is true exactly when an order created at t passes the admission gate.
C28_StatusAgreesWithGate ==
    GateHasRun
    => (is_accepting_orders_now(load(setting), TimeOfDay(now)) <=> Admitted)

\* C29: an order admitted at time of day t under the stored schedule has its
\* promised ready time on the same day no later than closing:
\* t + default_ready_minutes <= close_time.
C29_ReadyBeforeClose ==
    Admitted
    => LET rs == load(setting)
           self == orders[creator.order]
       IN promised_ready_time([self EXCEPT !.created_at = TimeOfDay(@)], rs)
            <= rs.close_time

\* A READY request on the stored order pk would be applied now.
Due(pk) == make_order_ready(orders[pk], load(setting), now).due

\* C30 as stated: once a PENDING order is due it stays due in every later
\* step in which it is still PENDING, whatever happens to the schedule.
C30_DueStaysDue ==
    [][\A pk \in Persisted :
         (orders[pk].status = PENDING /\ orders'[pk].status = PENDING /\ Due(pk))
         => Due(pk)']_vars

\* C30, amended: once a PENDING order is due it stays due in every later
\* step that leaves it PENDING and does not raise the stored
\* default_ready_minutes, and a READY request applied while it is due is
\* carried on to the write.
C30_DueStaysDueUnlessRaised ==
    /\ [][\A pk \in Persisted :
            (/\ orders[pk].status = PENDING /\ orders'[pk].status = PENDING
             /\ Due(pk)
             /\ load(setting').default_ready_minutes
                  <= load(setting).default_ready_minutes)
            => Due(pk)']_vars
    /\ [][\A w \in Workers :
            (/\ worker[w].pc = "validated" /\ worker[w].value = READY
             /\ worker'[w] # worker[w]
             /\ orders[worker[w].pk].status = PENDING /\ Due(worker[w].pk))
            => worker'[w].pc = "saving"]_vars

C30_Witness ==
    \E w \in Workers :
        /\ worker[w].pc = "saving" /\ worker[w].value = READY
        /\ orders[worker[w].pk].status = PENDING
        /\ setting # NoRow /\ setting.default_ready_minutes = 10
        /\ now > promised_ready_time(orders[worker[w].pk], setting)

====
